---------------------------- MODULE Spec2Model ----------------------------
(***************************************************************************)
(* Timber Frame Designer (timber_frame_designer.py).                       *)
(*                                                                         *)
(* The program reads five numbers, selects member sizes from static        *)
(* tables, derives the frame geometry, prints a report, renders the frame  *)
(* and saves/shows the figure.                                             *)
(*                                                                         *)
(* Numbers are Python floats.  A float is modelled as a binary             *)
(* floating-point number with a Prec-bit significand and round-to-nearest, *)
(* ties-to-even arithmetic (CPython: 53 bits), held as an integer count of *)
(* quanta of 1/Q, plus the special values nan and +/-inf that float()      *)
(* parses.                                                                 *)
(***************************************************************************)
EXTENDS Integers, Sequences, FiniteSets, TLC

VARIABLES
    pc,          \* position in main / __main__
    prompt,      \* index (1..5) of the get_positive_float call in progress
    entries,     \* operator entries consumed by the call in progress
    vals,        \* values returned by the completed get_positive_float calls
    out,         \* what main has printed / shown after the prompts
    exit_code,   \* process exit status (-1 while running)
    structure,   \* the TimberFrameStructure object (fields of self)
    designer,    \* structure.designer: the three sizing tables
    report,      \* the last string returned by get_structure_report
    fig,         \* the figure returned by the last visualize_3d
    calls,       \* size-selector calls made directly on the designer
    ret,         \* value returned by the last get_positive_float call
    raised       \* exception raised by the last step ("none": none)

vars == <<pc, prompt, entries, vals, out, exit_code, structure, designer,
          report, fig, calls, ret, raised>>

----------------------------------------------------------------------------
(* Floats *)

\* Significand width of the modelled float.
Prec == 6

\* Quanta per 1.0: every Prec-bit float >= 1/8 is a whole number of quanta.
Q == 2 ^ (Prec + 2)

Num(n) == [k |-> "num", v |-> n]
NaN == [k |-> "nan", v |-> 0]
PosInf == [k |-> "inf", v |-> 1]
NegInf == [k |-> "inf", v |-> -1]
NoneF == [k |-> "none", v |-> 0]

\* An int literal of the source (12, 2, 30, ...) as a float.
Ft(n) == Num(n * Q)

IsNum(a) == a.k = "num"

\* a < b and a <= b of Python floats: every comparison with nan is False.
Lt(a, b) ==
    /\ a.k # "nan"
    /\ b.k # "nan"
    /\ IF a.k = "inf" THEN a.v < 0 /\ ~(b.k = "inf" /\ b.v < 0)
       ELSE IF b.k = "inf" THEN b.v > 0
       ELSE a.v < b.v

Le(a, b) == Lt(a, b) \/ (a.k # "nan" /\ a = b)

\* The unit in the last place of the positive rational n/d (in quanta).
RECURSIVE UlpFrom(_, _, _)
UlpFrom(n, d, u) == IF n < (2 ^ Prec) * u * d THEN u ELSE UlpFrom(n, d, 2 * u)

Ulp(v) == UlpFrom(v, 1, 1)

\* n/d quanta rounded to the nearest float, ties to even.
RoundRat(n, d) ==
    LET u == UlpFrom(n, d, 1)
        k == n \div (d * u)
        r == n - k * d * u
    IN  IF 2 * r > d * u \/ (2 * r = d * u /\ k % 2 = 1)
        THEN (k + 1) * u
        ELSE k * u

\* a / b, a * b, a + b on non-negative floats; nan propagates.
FDiv(a, b) ==
    IF IsNum(a) /\ IsNum(b) /\ a.v >= 0 /\ b.v > 0
    THEN Num(RoundRat(a.v * Q, b.v))
    ELSE NaN

FMul(a, b) ==
    IF IsNum(a) /\ IsNum(b) /\ a.v >= 0 /\ b.v >= 0
    THEN Num(RoundRat(a.v * b.v, Q))
    ELSE NaN

FAdd(a, b) ==
    IF IsNum(a) /\ IsNum(b) /\ a.v >= 0 /\ b.v >= 0
    THEN Num(RoundRat(a.v + b.v, 1))
    ELSE NaN

\* int(x) of a non-negative float: truncation.
IntOf(a) == a.v \div Q

\* The floats of the model in [lo, hi] (quanta).
FloatsIn(lo, hi) == {v \in lo..hi : v % Ulp(v) = 0}

\* The floats next to v.
Succ(v) == v + Ulp(v)
Pred(v) == v - Ulp(v - 1)

Min(S) == CHOOSE x \in S : \A y \in S : x <= y

----------------------------------------------------------------------------
(* TimberFrameDesigner *)

post_sizes_init ==
    << [lo |-> 0,  hi |-> 30,  size |-> <<6, 6>>],
       [lo |-> 30, hi |-> 50,  size |-> <<8, 8>>],
       [lo |-> 50, hi |-> 70,  size |-> <<10, 10>>],
       [lo |-> 70, hi |-> 100, size |-> <<12, 12>>] >>

beam_sizes_init ==
    ( <<16, 30>> :> <<6, 10>>  @@ <<16, 50>> :> <<6, 12>>
   @@ <<16, 70>> :> <<8, 12>>  @@ <<16, 100>> :> <<8, 14>>
   @@ <<24, 30>> :> <<8, 12>>  @@ <<24, 50>> :> <<8, 14>>
   @@ <<24, 70>> :> <<10, 14>> @@ <<24, 100>> :> <<10, 16>>
   @@ <<32, 30>> :> <<8, 14>>  @@ <<32, 50>> :> <<10, 16>>
   @@ <<32, 70>> :> <<12, 16>> @@ <<32, 100>> :> <<12, 18>>
   @@ <<40, 30>> :> <<10, 16>> @@ <<40, 50>> :> <<12, 18>>
   @@ <<40, 70>> :> <<12, 20>> @@ <<40, 100>> :> <<14, 20>> )

rafter_sizes_init ==
    ( <<16, 30>> :> <<4, 8>>  @@ <<16, 50>> :> <<6, 8>>
   @@ <<16, 70>> :> <<6, 10>> @@ <<16, 100>> :> <<6, 12>>
   @@ <<24, 30>> :> <<6, 10>> @@ <<24, 50>> :> <<6, 12>>
   @@ <<24, 70>> :> <<8, 12>> @@ <<24, 100>> :> <<8, 14>> )

\* TimberFrameDesigner(): the object __init__ builds.
TimberFrameDesigner ==
    [post_sizes |-> post_sizes_init,
     beam_sizes |-> beam_sizes_init,
     rafter_sizes |-> rafter_sizes_init]

NoDesigner == [post_sizes |-> <<>>, beam_sizes |-> <<>>, rafter_sizes |-> <<>>]

\* Mutant of get_post_size: ranges closed on the right, open on the left.
get_post_size_closed(d, snow_load) ==
    LET hit == {i \in 1..Len(d.post_sizes) :
                   /\ Lt(Ft(d.post_sizes[i].lo), snow_load)
                   /\ Le(snow_load, Ft(d.post_sizes[i].hi))}
    IN  IF hit # {} THEN d.post_sizes[Min(hit)].size ELSE <<12, 12>>

\* The first bucket, in the table's order, with lo <= snow_load < hi.
get_post_size(d, snow_load) ==
    LET hit == {i \in 1..Len(d.post_sizes) :
                   /\ Le(Ft(d.post_sizes[i].lo), snow_load)
                   /\ Lt(snow_load, Ft(d.post_sizes[i].hi))}
    IN  IF hit # {} THEN d.post_sizes[Min(hit)].size ELSE <<12, 12>>

\* Mutant of category: a value equal to a category goes to the next one.
category_strict(categories, x, dflt) ==
    LET fit == {c \in categories : Lt(x, Ft(c))}
    IN  IF fit # {} THEN Min(fit) ELSE dflt

\* Mutant of category: the comparison turned round.
category_below(categories, x, dflt) ==
    LET fit == {c \in categories : Le(Ft(c), x)}
    IN  IF fit # {} THEN Min(fit) ELSE dflt

\* min([c for c in categories if x <= c], default=dflt)
category(categories, x, dflt) ==
    LET fit == {c \in categories : Le(x, Ft(c))}
    IN  IF fit # {} THEN Min(fit) ELSE dflt

beam_key(span_ft, snow_load) ==
    << category({16, 24, 32, 40}, span_ft, 40),
       category({30, 50, 70, 100}, snow_load, 100) >>

rafter_key(span_ft, snow_load) ==
    << category({16, 24}, span_ft, 24),
       category({30, 50, 70, 100}, snow_load, 100) >>

get_beam_size(d, span_ft, snow_load) ==
    LET key == beam_key(span_ft, snow_load)
    IN  IF key \in DOMAIN d.beam_sizes THEN d.beam_sizes[key] ELSE <<12, 18>>

get_rafter_size(d, span_ft, snow_load) ==
    LET key == rafter_key(span_ft, snow_load)
    IN  IF key \in DOMAIN d.rafter_sizes THEN d.rafter_sizes[key] ELSE <<8, 14>>

----------------------------------------------------------------------------
(* TimberFrameStructure *)

ideal_spacing == 12

NoStructure ==
    [length |-> NoneF, width |-> NoneF, wall_height |-> NoneF,
     roof_pitch |-> NoneF, snow_load |-> NoneF,
     post_size |-> <<0, 0>>, beam_size |-> <<0, 0>>, rafter_size |-> <<0, 0>>,
     ridge_height |-> NoneF, num_bents |-> 0, bent_spacing |-> NoneF]

\* The assignments of __init__ before it calls calculate_dimensions.
init_fields(length, width, wall_height, roof_pitch, snow_load) ==
    [NoStructure EXCEPT !.length = length, !.width = width,
                        !.wall_height = wall_height,
                        !.roof_pitch = roof_pitch, !.snow_load = snow_load]

Max2(a, b) == IF a >= b THEN a ELSE b

\* int(self.length / ideal_spacing) raises ValueError on nan.
calculate_raises(s) == ~IsNum(FDiv(s.length, Ft(ideal_spacing)))

num_bents_of(length) ==
    Max2(2, IntOf(FDiv(length, Ft(ideal_spacing))) + 1)

\* Mutant of bent_spacing_of: divides by the number of bents, not of bays.
bent_spacing_over_bents(length, num_bents) ==
    IF num_bents > 1 THEN FDiv(length, Ft(num_bents)) ELSE length

bent_spacing_of(length, num_bents) ==
    IF num_bents > 1 THEN FDiv(length, Ft(num_bents - 1)) ELSE length

ridge_height_of(s) ==
    FAdd(s.wall_height, FMul(FDiv(s.width, Ft(2)), s.roof_pitch))

\* Mutant of calculate_dimensions: the rafter span is the full width.
calculate_dimensions_fullspan(s, d) ==
    LET rafter_span == s.width
        num_bents == num_bents_of(s.length)
    IN  [s EXCEPT
            !.post_size = get_post_size(d, s.snow_load),
            !.beam_size = get_beam_size(d, s.width, s.snow_load),
            !.rafter_size = get_rafter_size(d, rafter_span, s.snow_load),
            !.ridge_height = ridge_height_of(s),
            !.num_bents = num_bents,
            !.bent_spacing = bent_spacing_of(s.length, num_bents)]

\* Mutant of calculate_dimensions: the rafter span is stored in self.width.
calculate_dimensions_inplace(s, d) ==
    LET rafter_span == FDiv(s.width, Ft(2))
        num_bents == num_bents_of(s.length)
    IN  [s EXCEPT
            !.width = rafter_span,
            !.post_size = get_post_size(d, s.snow_load),
            !.beam_size = get_beam_size(d, s.width, s.snow_load),
            !.rafter_size = get_rafter_size(d, rafter_span, s.snow_load),
            !.ridge_height = ridge_height_of(s),
            !.num_bents = num_bents,
            !.bent_spacing = bent_spacing_of(s.length, num_bents)]

\* calculate_dimensions(self) with self.designer = d: self afterwards.
calculate_dimensions(s, d) ==
    LET rafter_span == FDiv(s.width, Ft(2))
        num_bents == num_bents_of(s.length)
    IN  [s EXCEPT
            !.post_size = get_post_size(d, s.snow_load),
            !.beam_size = get_beam_size(d, s.width, s.snow_load),
            !.rafter_size = get_rafter_size(d, rafter_span, s.snow_load),
            !.ridge_height = ridge_height_of(s),
            !.num_bents = num_bents,
            !.bent_spacing = bent_spacing_of(s.length, num_bents)]

\* n/d rounded to the nearest integer, ties to even.
RoundHalfEven(n, d) ==
    LET k == n \div d
        r == n - k * d
    IN  IF 2 * r > d \/ (2 * r = d /\ k % 2 = 1) THEN k + 1 ELSE k

\* f"{x:.1f}" and f"{x:.0f}": x in units of 10^-digits; nan prints as nan.
Fmt(x, digits) ==
    IF IsNum(x) THEN Num(RoundHalfEven(x.v * (10 ^ digits), Q)) ELSE x

\* int(np.ceil(x)) of a non-negative float.
CeilOf(a) == (a.v + Q - 1) \div Q

\* get_structure_report(self): the values the fixed layout embeds.  The
\* rafter length goes through np.arctan and np.cos, which are not modelled:
\* the field holds the operands of that expression.
get_structure_report(s) ==
    [length |-> s.length,
     width |-> s.width,
     wall_height |-> s.wall_height,
     ridge_height |-> Fmt(s.ridge_height, 1),
     roof_pitch |-> Fmt(FMul(s.roof_pitch, Ft(12)), 0),
     snow_load |-> s.snow_load,
     posts |-> s.post_size,
     beams |-> s.beam_size,
     rafters |-> s.rafter_size,
     num_bents |-> s.num_bents,
     bent_spacing |-> Fmt(s.bent_spacing, 1),
     post_pieces |-> s.num_bents * 2,
     beam_pieces |-> s.num_bents,
     rafter_pieces |-> s.num_bents * 2,
     rafter_length |-> <<FDiv(s.width, Ft(2)), s.roof_pitch>>,
     plate_pieces |-> CeilOf(FDiv(FMul(s.length, Ft(2)), Ft(16)))]

NoReport == [length |-> NoneF]

\* max(a, b, c) of Python: the first argument unless a later one is greater.
Max3(a, b, c) ==
    LET m == IF Lt(a, b) THEN b ELSE a
    IN  IF Lt(m, c) THEN c ELSE m

\* visualize_3d(self): the figure it returns.
visualize_3d(s) ==
    [post |-> <<FDiv(Ft(s.post_size[1]), Ft(12)), FDiv(Ft(s.post_size[2]), Ft(12))>>,
     beam |-> <<FDiv(Ft(s.beam_size[1]), Ft(12)), FDiv(Ft(s.beam_size[2]), Ft(12))>>,
     rafter |-> <<FDiv(Ft(s.rafter_size[1]), Ft(12)), FDiv(Ft(s.rafter_size[2]), Ft(12))>>,
     bents |-> [i \in 1..s.num_bents |-> FMul(Ft(i - 1), s.bent_spacing)],
     plates |-> [i \in 1..(s.num_bents - 1) |->
                    <<FMul(Ft(i - 1), s.bent_spacing), FMul(Ft(i), s.bent_spacing)>>],
     wall_height |-> s.wall_height,
     ridge |-> <<FDiv(s.width, Ft(2)), s.ridge_height>>,
     max_dim |-> Max3(s.length, s.width, s.ridge_height)]

NoFig == [bents |-> <<>>]

----------------------------------------------------------------------------
(* The size selectors called directly on a designer *)

\* Every float of the model in [0, 256), and the specials float() can give.
DenseLoads ==
    {Num(v) : v \in {0} \cup FloatsIn(Q, 256 * Q - 1)} \cup {NaN, PosInf}

\* Every float of the model in [4, 64), and the specials.
DenseSpans == {Num(v) : v \in FloatsIn(4 * Q, 64 * Q - 1)} \cup {NaN, PosInf}

\* t and the floats next to it.
Around(t) == {Num(Pred(t * Q)), Num(t * Q), Num(Succ(t * Q))}

\* Valid snow loads (5..200 psf) at and next to every bucket edge.
EdgeLoads ==
    {Ft(5), Ft(200)} \cup Around(30) \cup Around(50) \cup Around(70) \cup Around(100)

\* Valid beam spans (10..60 ft) and rafter spans (5..30 ft) likewise.
EdgeBeamSpans ==
    {Ft(10), Ft(60)} \cup Around(16) \cup Around(24) \cup Around(32) \cup Around(40)

EdgeRafterSpans == {Ft(5), Ft(30)} \cup Around(16) \cup Around(24)

InitSel ==
    /\ pc = "api"
    /\ prompt = 0
    /\ entries = <<>>
    /\ vals = <<>>
    /\ out = <<>>
    /\ exit_code = -1
    /\ structure = NoStructure
    /\ designer = TimberFrameDesigner
    /\ report = NoReport
    /\ fig = NoFig
    /\ calls = <<>>
    /\ ret = NoneF
    /\ raised = "none"

CallPost(Loads, limit) ==
    /\ Len(calls) < limit
    /\ \E l \in Loads :
        calls' = Append(calls,
            [fn |-> "get_post_size", span |-> NoneF, load |-> l,
             ret |-> get_post_size(designer, l)])
    /\ UNCHANGED <<pc, prompt, entries, vals, out, exit_code, structure,
                   designer, report, fig, ret, raised>>

CallBeam(Spans, Loads, limit) ==
    /\ Len(calls) < limit
    /\ \E s \in Spans, l \in Loads :
        calls' = Append(calls,
            [fn |-> "get_beam_size", span |-> s, load |-> l,
             ret |-> get_beam_size(designer, s, l)])
    /\ UNCHANGED <<pc, prompt, entries, vals, out, exit_code, structure,
                   designer, report, fig, ret, raised>>

CallRafter(Spans, Loads, limit) ==
    /\ Len(calls) < limit
    /\ \E s \in Spans, l \in Loads :
        calls' = Append(calls,
            [fn |-> "get_rafter_size", span |-> s, load |-> l,
             ret |-> get_rafter_size(designer, s, l)])
    /\ UNCHANGED <<pc, prompt, entries, vals, out, exit_code, structure,
                   designer, report, fig, ret, raised>>

\* One call with any argument.
NextSel ==
    \/ CallPost(DenseLoads, 1)
    \/ CallBeam(DenseSpans, DenseLoads, 1)
    \/ CallRafter(DenseSpans, DenseLoads, 1)

SpecSel == InitSel /\ [][NextSel]_vars

\* Two calls with valid arguments at and around the category edges.
NextPair ==
    \/ CallPost(EdgeLoads, 2)
    \/ CallBeam(EdgeBeamSpans, EdgeLoads, 2)
    \/ CallRafter(EdgeRafterSpans, EdgeLoads, 2)

SpecPair == InitSel /\ [][NextPair]_vars

CallsOf(fn) == {i \in DOMAIN calls : calls[i].fn = fn}

\* The post size the specification's buckets give a load of v quanta.
PostBucket(v) ==
    IF v < 30 * Q THEN <<6, 6>>
    ELSE IF v < 50 * Q THEN <<8, 8>>
    ELSE IF v < 70 * Q THEN <<10, 10>>
    ELSE <<12, 12>>

\* C1: get_post_size returns (6,6) on [0,30), (8,8) on [30,50), (10,10) on
\* [50,70), (12,12) on [70,100) and the fallback (12,12) from 100 on, for
\* every non-negative load.
C1_PostBuckets ==
    \A i \in CallsOf("get_post_size") :
        (IsNum(calls[i].load) /\ calls[i].load.v >= 0)
            => /\ calls[i].ret = PostBucket(calls[i].load.v)
               /\ (calls[i].load.v >= 100 * Q => calls[i].ret = <<12, 12>>)

C1_Witness ==
    \E i \in CallsOf("get_post_size") :
        calls[i].load = Ft(30) /\ calls[i].ret = <<8, 8>>

\* The smallest category >= x, the largest when x exceeds them all.
SmallestGE(cats, x) ==
    IF \E c \in cats : x.v <= c * Q
    THEN CHOOSE c \in cats :
            x.v <= c * Q /\ \A c2 \in cats : x.v <= c2 * Q => c <= c2
    ELSE CHOOSE c \in cats : \A c2 \in cats : c2 <= c

\* C2: get_beam_size and get_rafter_size return the table entry of the
\* smallest span category >= span and the smallest load category >= load
\* (the largest category beyond all of them); get_beam_size(16, 30) = (6,10)
\* and get_beam_size(20, 45) = (8,14).
C2_Categories ==
    /\ \A i \in CallsOf("get_beam_size") :
        LET c == calls[i] IN
        /\ (IsNum(c.span) /\ IsNum(c.load)) =>
              c.ret = beam_sizes_init[<<SmallestGE({16, 24, 32, 40}, c.span),
                                        SmallestGE({30, 50, 70, 100}, c.load)>>]
        /\ (c.span = Ft(16) /\ c.load = Ft(30)) => c.ret = <<6, 10>>
        /\ (c.span = Ft(20) /\ c.load = Ft(45)) => c.ret = <<8, 14>>
    /\ \A i \in CallsOf("get_rafter_size") :
        LET c == calls[i] IN
        (IsNum(c.span) /\ IsNum(c.load)) =>
            c.ret = rafter_sizes_init[<<SmallestGE({16, 24}, c.span),
                                        SmallestGE({30, 50, 70, 100}, c.load)>>]

C2_Witness ==
    /\ \E i \in CallsOf("get_beam_size") :
        calls[i].span = Ft(20) /\ calls[i].load = Ft(45) /\ calls[i].ret = <<8, 14>>

SizeLe(a, b) == a[1] <= b[1] /\ a[2] <= b[2]

\* C10: sizing is monotone in load and span over the valid ranges, and the
\* hardcoded fallbacks of get_beam_size and get_rafter_size are never taken:
\* every classified (span_cat, load_cat) is a key of its table.
C10_Monotone ==
    /\ \A i, j \in DOMAIN calls :
        (/\ calls[i].fn = calls[j].fn
         /\ Le(calls[i].load, calls[j].load)
         /\ (calls[i].fn = "get_post_size" \/ Le(calls[i].span, calls[j].span)))
        => SizeLe(calls[i].ret, calls[j].ret)
    /\ \A i \in CallsOf("get_beam_size") :
        /\ beam_key(calls[i].span, calls[i].load) \in DOMAIN designer.beam_sizes
        /\ calls[i].ret = designer.beam_sizes[beam_key(calls[i].span, calls[i].load)]
    /\ \A i \in CallsOf("get_rafter_size") :
        /\ rafter_key(calls[i].span, calls[i].load) \in DOMAIN designer.rafter_sizes
        /\ calls[i].ret = designer.rafter_sizes[rafter_key(calls[i].span, calls[i].load)]

C10_Witness ==
    /\ Len(calls) = 2
    /\ calls[1].fn = "get_beam_size"
    /\ calls[2].fn = "get_beam_size"
    /\ Lt(calls[1].span, calls[2].span)
    /\ Lt(calls[1].load, calls[2].load)
    /\ calls[1].ret # calls[2].ret

----------------------------------------------------------------------------
(* A TimberFrameStructure used through its methods *)

\* The ranges main enforces: length, width, wall height, roof rise, snow load.
Bounds ==
    << [min |-> 10, max |-> 100], [min |-> 10, max |-> 60],
       [min |-> 6, max |-> 20], [min |-> 2, max |-> 16],
       [min |-> 5, max |-> 200] >>

\* roof_pitch = roof_rise / 12
pitch_of(roof_rise) == FDiv(roof_rise, Ft(12))

ValidFloats(i) == {Num(v) : v \in FloatsIn(Bounds[i].min * Q, Bounds[i].max * Q)}

EdgeLengths == {Ft(10), Ft(100)} \cup Around(12) \cup Around(24) \cup Around(36)

EdgeWidths == {Ft(10), Ft(60)} \cup Around(16) \cup Around(32) \cup Around(48)

\* The structures built: every valid length, every valid width with every
\* edge load, and the edge values of all five inputs together.
CalcInputs ==
    {<<l, Ft(30), Ft(10), pitch_of(Ft(6)), Ft(40)>> : l \in ValidFloats(1)}
    \cup {<<Ft(40), w, Ft(10), pitch_of(Ft(6)), ld>> :
             w \in ValidFloats(2), ld \in EdgeLoads \cup {Ft(40)}}
    \cup {<<l, w, h, pitch_of(r), ld>> :
             l \in EdgeLengths, w \in EdgeWidths, h \in {Ft(6), Ft(20)},
             r \in {Ft(2), Ft(7), Ft(16)}, ld \in {Ft(5), Ft(30), Ft(200)}}

InitCalc ==
    /\ pc = "api"
    /\ prompt = 0
    /\ entries = <<>>
    /\ vals = <<>>
    /\ out = <<>>
    /\ exit_code = -1
    /\ structure = NoStructure
    /\ designer = NoDesigner
    /\ report = NoReport
    /\ fig = NoFig
    /\ calls = <<>>
    /\ ret = NoneF
    /\ raised = "none"

\* TimberFrameStructure(length, width, wall_height, roof_pitch, snow_load)
New ==
    /\ structure = NoStructure
    /\ \E a \in CalcInputs :
        /\ ~calculate_raises(init_fields(a[1], a[2], a[3], a[4], a[5]))
        /\ structure' = calculate_dimensions(
                            init_fields(a[1], a[2], a[3], a[4], a[5]),
                            TimberFrameDesigner)
    /\ designer' = TimberFrameDesigner
    /\ UNCHANGED <<pc, prompt, entries, vals, out, exit_code, report, fig,
                   calls, ret, raised>>

\* structure.calculate_dimensions()
Recalculate ==
    /\ structure # NoStructure
    /\ structure' = calculate_dimensions(structure, designer)
    /\ UNCHANGED <<pc, prompt, entries, vals, out, exit_code, designer,
                   report, fig, calls, ret, raised>>

\* structure.get_structure_report()
Report ==
    /\ structure # NoStructure
    /\ report' = get_structure_report(structure)
    /\ UNCHANGED <<pc, prompt, entries, vals, out, exit_code, structure,
                   designer, fig, calls, ret, raised>>

\* structure.visualize_3d()
Visualize ==
    /\ structure # NoStructure
    /\ fig' = visualize_3d(structure)
    /\ UNCHANGED <<pc, prompt, entries, vals, out, exit_code, structure,
                   designer, report, calls, ret, raised>>

\* A selector of structure.designer called again on the span and load that
\* calculate_dimensions passed it.
SelectPost ==
    structure # NoStructure /\ CallPost({structure.snow_load}, 1)

SelectBeam ==
    structure # NoStructure /\ CallBeam({structure.width}, {structure.snow_load}, 1)

SelectRafter ==
    /\ structure # NoStructure
    /\ CallRafter({FDiv(structure.width, Ft(2))}, {structure.snow_load}, 1)

NextCalc ==
    \/ New
    \/ Recalculate
    \/ Report
    \/ Visualize
    \/ SelectPost
    \/ SelectBeam
    \/ SelectRafter

SpecCalc == InitCalc /\ [][NextCalc]_vars

Built == structure # NoStructure

Abs(x) == IF x < 0 THEN -x ELSE x

IsPow2(n) == \E e \in 0..3 : n = 2 ^ e

\* The five inputs are numbers inside the ranges main enforces.
ValidSpec(s) ==
    /\ IsNum(s.length) /\ Le(Ft(10), s.length) /\ Le(s.length, Ft(100))
    /\ IsNum(s.width) /\ Le(Ft(10), s.width) /\ Le(s.width, Ft(60))
    /\ IsNum(s.wall_height) /\ Le(Ft(6), s.wall_height) /\ Le(s.wall_height, Ft(20))
    /\ IsNum(s.roof_pitch) /\ Le(pitch_of(Ft(2)), s.roof_pitch)
                           /\ Le(s.roof_pitch, pitch_of(Ft(16)))
    /\ IsNum(s.snow_load) /\ Le(Ft(5), s.snow_load) /\ Le(s.snow_load, Ft(200))

\* max(2, floor(length / 12) + 1) in exact arithmetic.
ExactBents(length) == Max2(2, (length.v \div (12 * Q)) + 1)

\* C3 as stated: num_bents = max(2, floor(length/12) + 1) >= 2 and
\* bent_spacing * (num_bents - 1) equals length, so that the last bent drawn
\* sits exactly at the building length.
C3_ExactLength ==
    (Built /\ ValidSpec(structure)) =>
        /\ structure.num_bents = ExactBents(structure.length)
        /\ structure.num_bents >= 2
        /\ FMul(structure.bent_spacing, Ft(structure.num_bents - 1)) = structure.length
        /\ fig # NoFig =>
              /\ fig.bents[1] = Ft(0)
              /\ fig.bents[structure.num_bents] = structure.length

\* C3 amended: num_bents = max(2, floor(length/12) + 1) >= 2, and
\* bent_spacing * (num_bents - 1) equals length to within one unit in the
\* last place of length (exactly when num_bents - 1 is a power of two); the
\* first bent is drawn at 0 and the last within that tolerance of length.
C3_WithinTolerance ==
    (Built /\ ValidSpec(structure)) =>
        LET n == structure.num_bents
            back == FMul(structure.bent_spacing, Ft(n - 1))
            tol == Ulp(structure.length.v)
        IN  /\ n = ExactBents(structure.length)
            /\ n >= 2
            /\ IsNum(back)
            /\ Abs(back.v - structure.length.v) <= tol
            /\ IsPow2(n - 1) => back = structure.length
            /\ fig # NoFig =>
                  /\ Len(fig.bents) = n
                  /\ fig.bents[1] = Ft(0)
                  /\ Abs(fig.bents[n].v - structure.length.v) <= tol

\* A structure whose bays do not divide the length exactly has been drawn.
C3_Witness ==
    /\ Built
    /\ ValidSpec(structure)
    /\ structure.num_bents = 6
    /\ fig # NoFig
    /\ fig.bents[6] # structure.length

\* C9: for every valid length the bent spacing lies within the 8 to 16 ft
\* on-center range the code documents.
C9_SpacingRange ==
    (Built /\ ValidSpec(structure)) =>
        /\ Le(Ft(8), structure.bent_spacing)
        /\ Le(structure.bent_spacing, Ft(16))

\* The table entry for span x (x.v quanta, halved when half) and load.
TableSize(table, spans, x, load) ==
    table[<<SmallestGE(spans, x), SmallestGE({30, 50, 70, 100}, load)>>]

Example ==
    /\ structure.length = Ft(40)
    /\ structure.width = Ft(30)
    /\ structure.wall_height = Ft(10)
    /\ structure.roof_pitch = Num(Q \div 2)
    /\ structure.snow_load = Ft(40)

\* C4: calculate_dimensions sets post_size from the snow load alone,
\* beam_size from (width, load), rafter_size from (width/2, load) and
\* ridge_height = wall_height + (width/2) * roof_pitch; for 40 x 30 ft, 10 ft
\* walls, pitch 0.5 and 40 psf: post (8,8), beam (10,16), ridge 17.5 ft,
\* 4 bents spaced 40/3 ft.
C4_Dimensions ==
    (Built /\ ValidSpec(structure)) =>
        LET s == structure
            half == Num(s.width.v \div 2)
        IN  /\ s.width.v % 2 = 0
            /\ s.post_size = PostBucket(s.snow_load.v)
            /\ s.beam_size =
                  TableSize(beam_sizes_init, {16, 24, 32, 40}, s.width, s.snow_load)
            /\ s.rafter_size =
                  TableSize(rafter_sizes_init, {16, 24}, half, s.snow_load)
            /\ s.ridge_height = FAdd(s.wall_height, FMul(half, s.roof_pitch))
            /\ Example =>
                  /\ s.post_size = <<8, 8>>
                  /\ s.beam_size = <<10, 16>>
                  /\ s.ridge_height = Num(17 * Q + Q \div 2)
                  /\ s.num_bents = 4
                  /\ 2 * Abs(3 * s.bent_spacing.v - 40 * Q) <= 3 * Ulp(s.bent_spacing.v)

C4_Witness == Built /\ Example /\ structure.ridge_height = Num(17 * Q + Q \div 2)

\* C8: once a structure is built, get_structure_report, visualize_3d and
\* calculate_dimensions leave its five inputs, its derived geometry and the
\* designer's tables unchanged; a second report equals the first, and a
\* selector called again with the arguments calculate_dimensions gave it
\* returns the size the structure holds.
C8_ReadOnly ==
    [][Built =>
        /\ structure' = structure
        /\ designer' = designer
        /\ (report # NoReport => report' = report)
        /\ (fig # NoFig => fig' = fig)
        /\ \A i \in DOMAIN calls' :
              /\ calls'[i].fn = "get_post_size" => calls'[i].ret = structure.post_size
              /\ calls'[i].fn = "get_beam_size" => calls'[i].ret = structure.beam_size
              /\ calls'[i].fn = "get_rafter_size" => calls'[i].ret = structure.rafter_size
    ]_vars

C8_Witness ==
    /\ Built
    /\ ValidSpec(structure)
    /\ report = get_structure_report(structure)
    /\ fig # NoFig
    /\ Len(calls) = 1
    /\ calls[1].fn = "get_rafter_size"

----------------------------------------------------------------------------
(* main and the __main__ block *)

\* Rejected entries one get_positive_float call may consume in the model.
MaxTries == 2

\* What the operator may type: text that is no number, the words float()
\* reads as nan and +/-inf, and the decimal n/d (in feet).
Text == [k |-> "text", n |-> 0, d |-> 1]
Word(w, sign) == [k |-> w, n |-> sign, d |-> 1]
Dec(n, d) == [k |-> "dec", n |-> n, d |-> d]

\* float(entry) raises ValueError
float_raises(tok) == tok.k = "text"

\* float(entry): the float nearest the decimal.
float_of(tok) ==
    IF tok.k = "nan" THEN NaN
    ELSE IF tok.k = "inf" THEN (IF tok.n < 0 THEN NegInf ELSE PosInf)
    ELSE IF tok.n >= 0 THEN Num(RoundRat(tok.n * Q, tok.d))
    ELSE Num(0 - RoundRat((0 - tok.n) * Q, tok.d))

\* The end-to-end scenario: 40 x 30 ft, 10 ft walls, rise 6, 40 psf.
Scenario == <<40, 30, 10, 6, 40>>

\* The entries tried at prompt i.
Tokens(i) ==
    LET lo == Bounds[i].min
        hi == Bounds[i].max
    IN  { Text, Word("nan", 1), Word("inf", 1),
          Dec(0, 1), Dec(-3, 1), Dec(lo - 1, 1), Dec(Succ(hi * Q), Q),
          Dec(lo, 1), Dec(Scenario[i], 1), Dec(hi, 1),
          Dec(hi * 4 * Q + 1, 4 * Q) }

\* issubclass(exc, cls) for the exception classes that occur.
IsInstance(exc, cls) ==
    \/ cls = "BaseException"
    \/ cls = exc
    \/ cls = "Exception" /\ exc \in {"ValueError", "EOFError", "OSError"}

\* Mutant of handler_at: a bare except in get_positive_float.
handler_at_bare(p) ==
    IF p = "prompt" THEN "BaseException"
    ELSE IF p = "save" THEN "Exception"
    ELSE "none"

\* Mutant of handler_at: savefig outside any try block.
handler_at_nosave(p) ==
    IF p = "prompt" THEN "ValueError"
    ELSE "none"

\* The except clause of the try block of main / get_positive_float that
\* encloses position p.
handler_at(p) ==
    IF p = "prompt" THEN "ValueError"
    ELSE IF p = "save" THEN "Exception"
    ELSE "none"

\* The except clause of the __main__ block.
toplevel_handler == "KeyboardInterrupt"

\* The entries the call in progress has consumed.
Consumed == IF ret = NoneF THEN entries ELSE <<>>

Init ==
    /\ pc = "prompt"
    /\ prompt = 1
    /\ entries = <<>>
    /\ vals = <<>>
    /\ out = <<>>
    /\ exit_code = -1
    /\ structure = NoStructure
    /\ designer = NoDesigner
    /\ report = NoReport
    /\ fig = NoFig
    /\ calls = <<>>
    /\ ret = NoneF
    /\ raised = "none"

\* exc is raised at position pc: the innermost enclosing handler that
\* matches takes it (re-prompt; warning and on to the display), else the
\* __main__ handler (exit 0), else the interpreter (traceback, exit 1).
Raise(exc) ==
    /\ raised' = exc
    /\ IF handler_at(pc) # "none" /\ IsInstance(exc, handler_at(pc))
       THEN /\ pc' = IF pc = "save" THEN "show" ELSE pc
            /\ out' = IF pc = "save" THEN Append(out, "warning") ELSE out
            /\ exit_code' = exit_code
       ELSE IF IsInstance(exc, toplevel_handler)
       THEN /\ pc' = "exited"
            /\ out' = Append(out, "terminated")
            /\ exit_code' = 0
       ELSE /\ pc' = "exited"
            /\ out' = Append(out, "traceback")
            /\ exit_code' = 1

\* One pass of the loop of get_positive_float: read an entry, convert it,
\* test it; return it or print a message and go round again.
Entry ==
    /\ pc = "prompt"
    /\ Len(Consumed) < MaxTries
    /\ \E tok \in Tokens(prompt) :
        LET value == float_of(tok)
            min_val == Ft(Bounds[prompt].min)
            max_val == Ft(Bounds[prompt].max)
        IN  /\ entries' = Append(Consumed, tok)
            /\ IF float_raises(tok)
               THEN Raise("ValueError") /\ UNCHANGED <<prompt, vals>> /\ ret' = NoneF
               ELSE IF Le(value, Ft(0)) \/ Lt(value, min_val) \/ Lt(max_val, value)
               THEN /\ raised' = "none"
                    /\ ret' = NoneF
                    /\ UNCHANGED <<pc, prompt, vals, out, exit_code>>
               ELSE /\ raised' = "none"
                    /\ ret' = value
                    /\ vals' = Append(vals, value)
                    /\ prompt' = prompt + 1
                    /\ pc' = IF prompt = 5 THEN "calc" ELSE "prompt"
                    /\ UNCHANGED <<out, exit_code>>
    /\ UNCHANGED <<structure, designer, report, fig, calls>>

\* input() at end of input.
EndOfInput ==
    /\ pc = "prompt"
    /\ Raise("EOFError")
    /\ UNCHANGED <<prompt, entries, vals, structure, designer, report, fig,
                   calls, ret>>

\* Ctrl-C while the program runs.
Interrupt ==
    /\ pc # "exited"
    /\ Raise("KeyboardInterrupt")
    /\ UNCHANGED <<prompt, entries, vals, structure, designer, report, fig,
                   calls, ret>>

\* structure = TimberFrameStructure(length, width, wall_height, roof_rise / 12,
\*                                  snow_load)
Construct ==
    /\ pc = "calc"
    /\ LET s == init_fields(vals[1], vals[2], vals[3], pitch_of(vals[4]), vals[5])
       IN  IF calculate_raises(s)
           THEN Raise("ValueError") /\ UNCHANGED <<structure, designer>>
           ELSE /\ structure' = calculate_dimensions(s, TimberFrameDesigner)
                /\ designer' = TimberFrameDesigner
                /\ pc' = "report"
                /\ raised' = "none"
                /\ UNCHANGED <<out, exit_code>>
    /\ UNCHANGED <<prompt, entries, vals, report, fig, calls, ret>>

\* print(structure.get_structure_report())
PrintReport ==
    /\ pc = "report"
    /\ report' = get_structure_report(structure)
    /\ out' = Append(out, "report")
    /\ pc' = "render"
    /\ raised' = "none"
    /\ UNCHANGED <<prompt, entries, vals, exit_code, structure, designer, fig,
                   calls, ret>>

\* fig = structure.visualize_3d()
Render ==
    /\ pc = "render"
    /\ fig' = visualize_3d(structure)
    /\ pc' = "save"
    /\ raised' = "none"
    /\ UNCHANGED <<prompt, entries, vals, out, exit_code, structure, designer,
                   report, calls, ret>>

\* fig.savefig(...) writes the file.
SaveOk ==
    /\ pc = "save"
    /\ out' = Append(out, "saved")
    /\ pc' = "show"
    /\ raised' = "none"
    /\ UNCHANGED <<prompt, entries, vals, exit_code, structure, designer,
                   report, fig, calls, ret>>

\* fig.savefig(...) fails.
SaveFail ==
    /\ pc = "save"
    /\ \E exc \in {"OSError", "ValueError"} : Raise(exc)
    /\ UNCHANGED <<prompt, entries, vals, structure, designer, report, fig,
                   calls, ret>>

\* plt.show() until the window is closed.
Show ==
    /\ pc = "show"
    /\ out' = Append(out, "display")
    /\ pc' = "complete"
    /\ raised' = "none"
    /\ UNCHANGED <<prompt, entries, vals, exit_code, structure, designer,
                   report, fig, calls, ret>>

\* The closing messages; main returns and the process ends.
Complete ==
    /\ pc = "complete"
    /\ out' = Append(out, "complete")
    /\ pc' = "exited"
    /\ exit_code' = 0
    /\ raised' = "none"
    /\ UNCHANGED <<prompt, entries, vals, structure, designer, report, fig,
                   calls, ret>>

Next ==
    \/ Entry
    \/ EndOfInput
    \/ Interrupt
    \/ Construct
    \/ PrintReport
    \/ Render
    \/ SaveOk
    \/ SaveFail
    \/ Show
    \/ Complete

Spec == Init /\ [][Next]_vars

\* The entry, as typed, is a positive number within the bounds of prompt i.
EntryWithin(tok, i) ==
    /\ tok.k = "dec"
    /\ tok.n > 0
    /\ Bounds[i].min * tok.d <= tok.n
    /\ tok.n <= Bounds[i].max * tok.d

\* C5: get_positive_float re-prompts on every entry that is non-numeric,
\* zero, negative or outside [min_val, max_val] and returns the first entry
\* within bounds: the value v it returns satisfies v > 0 and
\* min_val <= v <= max_val, and no entry after that one is consumed.
C5_FirstWithinBounds ==
    ret # NoneF =>
        LET i == prompt - 1
            last == entries[Len(entries)]
        IN  /\ Lt(Ft(0), ret)
            /\ Le(Ft(Bounds[i].min), ret)
            /\ Le(ret, Ft(Bounds[i].max))
            /\ ret = float_of(last)
            /\ EntryWithin(last, i)
            /\ \A j \in 1..(Len(entries) - 1) : ~EntryWithin(entries[j], i)

Last(q) == q[Len(q)]

\* C6: a failure to write the image is caught and reported as a warning and
\* the program goes on to the display; the display is entered only after the
\* save was attempted, whether it succeeded or failed, and from the display
\* the only way on, short of an interrupt, is the completion message.
C6_SaveFailureNotFatal ==
    [][/\ (pc = "save" /\ raised' \in {"OSError", "ValueError"}) =>
              /\ pc' = "show"
              /\ out' = Append(out, "warning")
              /\ exit_code' = -1
       /\ pc' = "show" => (pc = "save" /\ Last(out') \in {"saved", "warning"})
       /\ (pc = "show" /\ raised' # "KeyboardInterrupt") =>
              (pc' = "complete" /\ out' = Append(out, "display"))
       /\ (pc = "complete" /\ raised' # "KeyboardInterrupt") =>
              (pc' = "exited" /\ exit_code' = 0 /\ out' = Append(out, "complete"))
    ]_vars

\* The save failed, and the display and the completion message followed.
C6_Witness ==
    /\ pc = "exited"
    /\ exit_code = 0
    /\ Len(out) = 4
    /\ out[2] = "warning"
    /\ out[3] = "display"
    /\ out[4] = "complete"

\* C7: a KeyboardInterrupt raised anywhere in the pipeline ends the process
\* with exit code 0 through the __main__ handler (no inner handler takes
\* it); normal completion exits 0; any other uncaught exception exits
\* non-zero.
C7_InterruptExitsZero ==
    [][/\ raised' = "KeyboardInterrupt" =>
              /\ pc' = "exited"
              /\ exit_code' = 0
              /\ out' = Append(out, "terminated")
       /\ pc' = "exited" =>
              /\ raised' = "none" => (exit_code' = 0 /\ Last(out') = "complete")
              /\ raised' \notin {"none", "KeyboardInterrupt"} => exit_code' # 0
       /\ pc' # "exited" => exit_code' = -1
    ]_vars

\* Interrupted during the interactive display, after a failed save.
C7_Witness ==
    /\ pc = "exited"
    /\ raised = "KeyboardInterrupt"
    /\ exit_code = 0
    /\ Len(out) = 4
    /\ out[2] = "warning"
    /\ out[3] = "display"
    /\ out[4] = "terminated"

============================================================================
